---- MODULE Spec2Model ----
(***************************************************************************)
(* holography/quantum_artifacts.py: six jitted numeric functions over a    *)
(* caller-supplied field array.  The caller holds one array (`field`), the *)
(* JAX precision flag (`x64`) and the external holographic_projection      *)
(* routine (`projection`); every call is one action that records the call  *)
(* and its outcome (a value or the exception the library raised).          *)
(*                                                                         *)
(* Numbers.  Array elements handed in are Gaussian integers <<re, im>>.    *)
(* Computed reals are extended rationals <<n, d>> (d >= 0, lowest terms):  *)
(* <<1,0>> is +inf, <<-1,0>> is -inf and <<0,0>> is NaN, with the IEEE-754 *)
(* rules for the operations the code uses.  Rounding of finite results is  *)
(* not modelled, except where it decides a result (the 1e-10 regulariser   *)
(* of the entropy, see AddEps) and for the logarithm, which is computed in *)
(* fixed point (FixLn).                                                    *)
(***************************************************************************)
EXTENDS Integers, Sequences, FiniteSets, TLC

VARIABLES field, x64, projection, last, projCalls, pinned

vars == <<field, x64, projection, last, projCalls, pinned>>

(***************************************************************************)
(* Bounds of the model.                                                    *)
(***************************************************************************)
\* array elements are drawn from -MaxVal..MaxVal (and the imaginary unit)
MaxVal == 1
\* one-dimensional fields have 1..MaxLen elements
MaxLen == 4
\* fields of the history specification have 1..HistLen elements
HistLen == 2

(***************************************************************************)
(* Extended rational arithmetic (the IEEE-754 behaviour of /, *, +, -).    *)
(***************************************************************************)
AbsInt(a) == IF a < 0 THEN -a ELSE a

Sgn(a) == IF a < 0 THEN -1 ELSE 1

RECURSIVE Gcd(_, _)
Gcd(a, b) == IF b = 0 THEN a ELSE Gcd(b, a % b)

Rat(n, d) ==
    IF d = 0 THEN <<(IF n > 0 THEN 1 ELSE IF n < 0 THEN -1 ELSE 0), 0>>
    ELSE LET g == Gcd(AbsInt(n), AbsInt(d))
         IN  <<(Sgn(d) * n) \div g, AbsInt(d) \div g>>

NaN == <<0, 0>>

Zero == <<0, 1>>

IsNaN(a) == a = NaN
IsInf(a) == a[2] = 0 /\ a[1] # 0
IsFinite(a) == a[2] > 0

RNeg(a) == <<-a[1], a[2]>>

RMul(a, b) ==
    IF IsNaN(a) \/ IsNaN(b) THEN NaN ELSE Rat(a[1] * b[1], a[2] * b[2])

\* a / b; a zero divisor is +0 (the arrays handed in hold no negative zero)
RDiv(a, b) ==
    IF IsNaN(a) \/ IsNaN(b) THEN NaN
    ELSE Rat(a[1] * b[2] * Sgn(b[1]), a[2] * AbsInt(b[1]))

RAdd(a, b) ==
    IF IsNaN(a) \/ IsNaN(b) THEN NaN
    ELSE IF IsInf(a) /\ IsInf(b) THEN (IF a = b THEN a ELSE NaN)
    ELSE IF IsInf(a) THEN a
    ELSE IF IsInf(b) THEN b
    ELSE Rat(a[1] * b[2] + b[1] * a[2], a[2] * b[2])

RSub(a, b) == RAdd(a, RNeg(b))

RECURSIVE RSum(_)
RSum(s) == IF s = <<>> THEN Zero ELSE RAdd(Head(s), RSum(Tail(s)))

(***************************************************************************)
(* Python values: arrays, lists of arrays, scalars, callables, and the     *)
(* exception a call ended in.                                              *)
(***************************************************************************)
\* a real array: its elements are extended rationals
Array(shape, data) ==
    [tag |-> "array", dtype |-> "float", shape |-> shape, data |-> data]

\* a complex array: its elements are pairs <<re, im>> of extended rationals
CArray(shape, data) ==
    [tag |-> "array", dtype |-> "complex", shape |-> shape, data |-> data]

Scalar(v) == [tag |-> "scalar", dtype |-> "float", v |-> v]

CScalar(v) == [tag |-> "scalar", dtype |-> "complex", v |-> v]

List(items) == [tag |-> "list", items |-> items]

Callable == [tag |-> "function"]

\* an exception raised inside the array library
LibError(exc, by) == [tag |-> "error", exc |-> exc, by |-> by]

IsError(v) == v.tag = "error"

IsArray(v) == v.tag = "array"

\* an array or a scalar: what a jitted function takes and arithmetic works on
Numeric(v) == v.tag \in {"array", "scalar"}

Size(shape) == IF Len(shape) = 1 THEN shape[1] ELSE shape[1] * shape[2]

Ndim(a) == Len(a.shape)

\* element (r, c) of a two-dimensional array, stored row by row
At(a, r, c) == a.data[(r - 1) * a.shape[2] + c]

\* the index tuple of flat position i in an array of the given shape
Unflat(shape, i) ==
    IF Len(shape) = 1 THEN <<i>>
    ELSE <<((i - 1) \div shape[2]) + 1, ((i - 1) % shape[2]) + 1>>

(***************************************************************************)
(* Elementwise arithmetic with NumPy broadcasting (arrays of one or two    *)
(* dimensions and scalars).                                                *)
(***************************************************************************)
ShapeOf(v) == IF v.tag = "scalar" THEN <<>> ELSE v.shape

\* dimension j (counted from the right, 1 = last) of a shape, 1 when absent
DimR(shape, j) == IF j > Len(shape) THEN 1 ELSE shape[Len(shape) + 1 - j]

Compatible(s, t) ==
    \A j \in 1..2 : DimR(s, j) = DimR(t, j) \/ DimR(s, j) = 1 \/ DimR(t, j) = 1

Max(a, b) == IF a >= b THEN a ELSE b

BroadcastShape(s, t) ==
    LET n == Max(Len(s), Len(t))
    IN  [k \in 1..n |-> Max(DimR(s, n + 1 - k), DimR(t, n + 1 - k))]

\* the element of v that lands on index tuple idx of the broadcast result
Pick(v, idx) ==
    IF v.tag = "scalar" THEN v.v
    ELSE LET la == Len(v.shape)
             lt == Len(idx)
             co == [j \in 1..la |->
                       IF v.shape[j] = 1 THEN 1 ELSE idx[lt - la + j]]
         IN  IF la = 1 THEN v.data[co[1]] ELSE At(v, co[1], co[2])


\* the elementwise binary primitives of the array library
Apply(op, x, y) ==
    IF op = "multiply" THEN RMul(x, y)
    ELSE IF op = "true_divide" THEN RDiv(x, y)
    ELSE RAdd(x, y)

\* a (op) b, elementwise; shapes that do not broadcast raise
Elementwise(op, a, b) ==
    IF IsError(a) THEN a
    ELSE IF IsError(b) THEN b
    ELSE IF ~Numeric(a) \/ ~Numeric(b) THEN LibError("TypeError", op)
    ELSE IF ~Compatible(ShapeOf(a), ShapeOf(b)) THEN LibError("ValueError", op)
    ELSE LET sh == BroadcastShape(ShapeOf(a), ShapeOf(b))
         IN  IF sh = <<>> THEN Scalar(Apply(op, a.v, b.v))
             ELSE Array(sh, [i \in 1..Size(sh) |->
                                Apply(op, Pick(a, Unflat(sh, i)), Pick(b, Unflat(sh, i)))])

Mul(a, b) == Elementwise("multiply", a, b)

Div(a, b) == Elementwise("true_divide", a, b)

Add(a, b) == Elementwise("add", a, b)

\* unary minus
Neg(a) ==
    IF IsError(a) THEN a
    ELSE IF a.tag = "scalar" THEN Scalar(RNeg(a.v))
    ELSE IF a.tag = "array" THEN Array(a.shape, [i \in 1..Size(a.shape) |-> RNeg(a.data[i])])
    ELSE LibError("TypeError", "negative")

\* a ** 2
Square(a) == Mul(a, a)

(***************************************************************************)
(* jnp.gradient(f): central differences inside, one-sided at both ends,    *)
(* unit spacing.  One array for a one-dimensional f, a list with one array *)
(* per axis otherwise; it takes arrays only and needs two elements along   *)
(* every axis.                                                             *)
(***************************************************************************)
Half == <<1, 2>>

\* the difference quotient at position k of the line g[1..n]
DiffAt(g, n, k) ==
    IF k = 1 THEN RSub(g[2], g[1])
    ELSE IF k = n THEN RSub(g[n], g[n - 1])
    ELSE RMul(RSub(g[k + 1], g[k - 1]), Half)

GradientAlongAxis(a, ax) ==
    IF Ndim(a) = 1
    THEN Array(a.shape, [i \in 1..a.shape[1] |-> DiffAt(a.data, a.shape[1], i)])
    ELSE Array(a.shape,
           [i \in 1..Size(a.shape) |->
              LET rc == Unflat(a.shape, i)
              IN  IF ax = 1
                  THEN DiffAt([r \in 1..a.shape[1] |-> At(a, r, rc[2])], a.shape[1], rc[1])
                  ELSE DiffAt([c \in 1..a.shape[2] |-> At(a, rc[1], c)], a.shape[2], rc[2])])

Gradient(f) ==
    IF IsError(f) THEN f
    ELSE IF ~Numeric(f) THEN LibError("TypeError", "gradient")
    ELSE IF f.tag = "scalar" THEN LibError("ValueError", "gradient")
    ELSE IF \E k \in 1..Ndim(f) : f.shape[k] < 2 THEN LibError("ValueError", "gradient")
    ELSE IF Ndim(f) = 1 THEN GradientAlongAxis(f, 1)
    ELSE List([k \in 1..Ndim(f) |-> GradientAlongAxis(f, k)])

(***************************************************************************)
(* compute_mqp(density_field, hbar=1.0, mass=1.0)                          *)
(***************************************************************************)
Two == Scalar(<<2, 1>>)

\* compute_mqp with a guarded quotient: 0 where the density is 0
compute_mqp_guarded(density_field, hbar, mass) ==
    LET laplacian == Gradient(Gradient(density_field))
        q == Div(laplacian, density_field)
        quotient ==
            IF IsArray(q) /\ IsArray(density_field) /\ q.shape = density_field.shape
            THEN Array(q.shape, [i \in 1..Size(q.shape) |->
                                   IF density_field.data[i] = Zero THEN Zero ELSE q.data[i]])
            ELSE q
        quantum_potential == Mul(Neg(Div(Square(hbar), Mul(Two, mass))), quotient)
    IN  IF IsError(laplacian) THEN laplacian ELSE quantum_potential

compute_mqp(density_field, hbar, mass) ==
    LET laplacian == Gradient(Gradient(density_field))
        quantum_potential ==
            Mul(Neg(Div(Square(hbar), Mul(Two, mass))), Div(laplacian, density_field))
    IN  IF IsError(laplacian) THEN laplacian ELSE quantum_potential

(***************************************************************************)
(* jnp.fft.fft / jnp.fft.ifft along the last axis.  The transform lengths  *)
(* of the model are 1, 2 and 4, whose roots of unity are 1, -i, -1, i, so  *)
(* that the transform is exact in complex rationals.                       *)
(***************************************************************************)
FftLens == {1, 2, 4}

CAdd(a, b) == <<RAdd(a[1], b[1]), RAdd(a[2], b[2])>>

CMul(a, b) ==
    <<RSub(RMul(a[1], b[1]), RMul(a[2], b[2])),
      RAdd(RMul(a[1], b[2]), RMul(a[2], b[1]))>>

CScale(r, a) == <<RMul(r, a[1]), RMul(r, a[2])>>

CZero == <<Zero, Zero>>

RECURSIVE CSum(_)
CSum(s) == IF s = <<>> THEN CZero ELSE CAdd(Head(s), CSum(Tail(s)))

\* exp(-2*pi*i*m/n) for n in FftLens
Twiddle(n, m) ==
    LET q == (m * (4 \div n)) % 4
    IN  IF q = 0 THEN <<<<1, 1>>, Zero>>
        ELSE IF q = 1 THEN <<Zero, <<-1, 1>>>>
        ELSE IF q = 2 THEN <<<<-1, 1>>, Zero>>
        ELSE <<Zero, <<1, 1>>>>

ToComplex(a) ==
    IF a.dtype = "complex" THEN a
    ELSE CArray(a.shape, [i \in 1..Size(a.shape) |-> <<a.data[i], Zero>>])

\* the forward (dir = 1) or backward (dir = -1) sum over one line x[1..n]
Dft(x, n, dir) ==
    [k \in 1..n |-> CSum([j \in 1..n |-> CMul(x[j], Twiddle(n, dir * (j - 1) * (k - 1)))])]

\* the line of a that flat position i lies on, and i's position in it
LineOf(a, i) ==
    LET n == a.shape[Ndim(a)]
        r == (i - 1) \div n
    IN  [j \in 1..n |-> a.data[r * n + j]]

PosInLine(a, i) == ((i - 1) % a.shape[Ndim(a)]) + 1

Fft(a) ==
    IF IsError(a) THEN a
    ELSE IF ~IsArray(a) THEN LibError("TypeError", "fft")
    ELSE LET c == ToComplex(a)
             n == a.shape[Ndim(a)]
         IN  CArray(a.shape,
                [i \in 1..Size(a.shape) |-> Dft(LineOf(c, i), n, 1)[PosInLine(c, i)]])

Ifft(a) ==
    IF IsError(a) THEN a
    ELSE IF ~IsArray(a) THEN LibError("TypeError", "ifft")
    ELSE LET c == ToComplex(a)
             n == a.shape[Ndim(a)]
         IN  CArray(a.shape,
                [i \in 1..Size(a.shape) |->
                    CScale(<<1, n>>, Dft(LineOf(c, i), n, -1)[PosInLine(c, i)])])

\* jnp.abs(a) ** 2: the modulus of each element, squared
Modulus2(z) == RAdd(RMul(z[1], z[1]), RMul(z[2], z[2]))

AbsSquared(a) ==
    IF IsError(a) THEN a
    ELSE IF ~Numeric(a) THEN LibError("TypeError", "absolute")
    ELSE IF a.tag = "scalar"
    THEN Scalar(Modulus2(IF a.dtype = "complex" THEN a.v ELSE <<a.v, Zero>>))
    ELSE LET c == ToComplex(a)
         IN  Array(a.shape, [i \in 1..Size(a.shape) |-> Modulus2(c.data[i])])

(***************************************************************************)
(* compute_quantum_foam(phase_field)                                       *)
(***************************************************************************)
\* compute_quantum_foam with the forward transform in place of the inverse
compute_quantum_foam_forward(phase_field) == AbsSquared(Fft(phase_field))

compute_quantum_foam(phase_field) == AbsSquared(Ifft(phase_field))

(***************************************************************************)
(* Floating-point values of the entropy computation.  A float is           *)
(* [cls, m, e]: cls is "fin", "nan", "inf" or "ninf"; a finite value is    *)
(* m / Scale + e * 1e-10, with m a fixed-point integer and e a rational    *)
(* count of the 1e-10 regulariser, carried to first order (1e-10 is far    *)
(* below 1 / Scale, so it is kept apart instead of being rounded away).    *)
(***************************************************************************)
Scale == 10 ^ 5

\* ln(2) * Scale
Ln2 == 69315

\* ln(1e-10) * Scale
LnEps == -2302585

Fin(m, e) == [cls |-> "fin", m |-> m, e |-> e]

FNaN == [cls |-> "nan", m |-> 0, e |-> Zero]

FInf == [cls |-> "inf", m |-> 0, e |-> Zero]

FNegInf == [cls |-> "ninf", m |-> 0, e |-> Zero]

RECURSIVE FloorLog2(_)
FloorLog2(k) == IF k < 2 THEN 0 ELSE 1 + FloorLog2(k \div 2)

\* ln(k) * Scale for an integer k >= 1: k = 2^e * t with 1 <= t < 2, and
\* ln(t) = 2 * atanh((t - 1) / (t + 1)) by its series up to the ninth power
FixLnInt(k) ==
    LET e == FloorLog2(k)
        pw == 2 ^ e
        z == ((k - pw) * Scale) \div (k + pw)
        z2 == (z * z) \div Scale
        t3 == (z * z2) \div Scale
        t5 == (t3 * z2) \div Scale
        t7 == (t5 * z2) \div Scale
        t9 == (t7 * z2) \div Scale
    IN  e * Ln2 + 2 * (z + t3 \div 3 + t5 \div 5 + t7 \div 7 + t9 \div 9)

\* ln(p) * Scale for a rational p > 0
FixLn(p) == FixLnInt(p[1]) - FixLnInt(p[2])

\* p + 1e-10 in the precision in use, as [p, eps]: the value p + eps * 1e-10.
\* In single precision 1e-10 is below half an ulp of every p > 1/298 and is
\* rounded away; in double precision it is kept.
AddEps(p, double) ==
    IF IsNaN(p) THEN [p |-> NaN, eps |-> 0]
    ELSE IF p = Zero THEN [p |-> Zero, eps |-> 1]
    ELSE IF ~double /\ p[1] * 298 > p[2] THEN [p |-> p, eps |-> 0]
    ELSE [p |-> p, eps |-> 1]

\* jnp.log of a value p + eps * 1e-10 >= 0
Log(q) ==
    IF IsNaN(q.p) THEN FNaN
    ELSE IF q.p = Zero THEN (IF q.eps = 0 THEN FNegInf ELSE Fin(LnEps, Zero))
    ELSE Fin(FixLn(q.p), Rat(q.eps * q.p[2], q.p[1]))

\* p * f for a rational p >= 0 and a float f
MulF(p, f) ==
    IF IsNaN(p) \/ f.cls = "nan" THEN FNaN
    ELSE IF f.cls \in {"inf", "ninf"} THEN (IF p = Zero THEN FNaN ELSE f)
    ELSE Fin((p[1] * f.m) \div p[2], RMul(p, f.e))

AddF(a, b) ==
    IF a.cls = "nan" \/ b.cls = "nan" THEN FNaN
    ELSE IF a.cls = "fin" /\ b.cls = "fin" THEN Fin(a.m + b.m, RAdd(a.e, b.e))
    ELSE IF a.cls = "fin" THEN b
    ELSE IF b.cls = "fin" THEN a
    ELSE IF a.cls = b.cls THEN a
    ELSE FNaN

NegF(a) ==
    IF a.cls = "fin" THEN Fin(-a.m, RNeg(a.e))
    ELSE IF a.cls = "inf" THEN FNegInf
    ELSE IF a.cls = "ninf" THEN FInf
    ELSE FNaN

RECURSIVE SumF(_)
SumF(s) == IF s = <<>> THEN Fin(0, Zero) ELSE AddF(Head(s), SumF(Tail(s)))

\* jnp.sum over all elements of a real array
Sum(a) == IF IsError(a) THEN a ELSE Scalar(RSum(a.data))

(***************************************************************************)
(* compute_entanglement_entropy(phase_field)                               *)
(***************************************************************************)
\* compute_entanglement_entropy without the 1e-10 inside the logarithm
compute_entanglement_entropy_unregularised(phase_field) ==
    LET spectral_density == AbsSquared(Fft(phase_field))
        probability_distribution == Div(spectral_density, Sum(spectral_density))
    IN  IF IsError(probability_distribution) THEN probability_distribution
        ELSE LET p == probability_distribution.data
                 entropy == NegF(SumF([i \in 1..Len(p) |->
                                          MulF(p[i], Log([p |-> p[i], eps |-> 0]))]))
             IN  Scalar(entropy)

\* compute_entanglement_entropy without the leading minus
compute_entanglement_entropy_unsigned(phase_field) ==
    LET spectral_density == AbsSquared(Fft(phase_field))
        probability_distribution == Div(spectral_density, Sum(spectral_density))
    IN  IF IsError(probability_distribution) THEN probability_distribution
        ELSE LET p == probability_distribution.data
                 entropy == SumF([i \in 1..Len(p) |->
                                     MulF(p[i], Log(AddEps(p[i], x64)))])
             IN  Scalar(entropy)

compute_entanglement_entropy(phase_field) ==
    LET spectral_density == AbsSquared(Fft(phase_field))
        probability_distribution == Div(spectral_density, Sum(spectral_density))
    IN  IF IsError(probability_distribution) THEN probability_distribution
        ELSE LET p == probability_distribution.data
                 entropy == NegF(SumF([i \in 1..Len(p) |->
                                          MulF(p[i], Log(AddEps(p[i], x64)))]))
             IN  Scalar(entropy)

(***************************************************************************)
(* wave_particle_duality(x, t, params).  holographic_projection lives in   *)
(* holography/fourier_projection.py: a routine that yields a complex wave  *)
(* value for the coordinates and parameters it is given.  The result is    *)
(* returned together with the calls made to the routine.                   *)
(***************************************************************************)
holographic_projection(x, t, params) == projection[<<x, t, params>>]

\* wave_particle_duality passing t and x in the wrong order
wave_particle_duality_swapped(x, t, params) ==
    LET projection_wave == holographic_projection(t, x, params)
    IN  [ret |-> AbsSquared(projection_wave), calls |-> <<<<t, x, params>>>>]

wave_particle_duality(x, t, params) ==
    LET projection_wave == holographic_projection(x, t, params)
    IN  [ret |-> AbsSquared(projection_wave), calls |-> <<<<x, t, params>>>>]

(***************************************************************************)
(* compute_bohmian_velocity(phase_field, mass, hbar=1.0).  jax.grad takes  *)
(* a function and returns a function; given anything else it raises.       *)
(***************************************************************************)
JaxGrad(fun) ==
    IF fun.tag = "function" THEN Callable ELSE LibError("TypeError", "grad")

compute_bohmian_velocity(phase_field, mass, hbar) ==
    LET gradient_phase == JaxGrad(phase_field)
        velocity == Mul(Div(hbar, mass), gradient_phase)
    IN  IF IsError(gradient_phase) THEN gradient_phase ELSE velocity

(***************************************************************************)
(* holographic_decoherence(phase_field, decoherence_rate).                 *)
(* jax.random.normal(key, shape=(), dtype=float) needs a key and has no    *)
(* parameter called size.  A valid call yields draws fixed by the key.     *)
(***************************************************************************)
RandomNormal(kwargs) ==
    IF "key" \in DOMAIN kwargs /\ DOMAIN kwargs \subseteq {"key", "shape", "dtype"}
    THEN LET shape == IF "shape" \in DOMAIN kwargs THEN kwargs.shape ELSE <<>>
         IN  IF shape = <<>> THEN Scalar(Rat(kwargs.key, 1))
             ELSE Array(shape, [i \in 1..Size(shape) |-> Rat(kwargs.key, 1)])
    ELSE LibError("TypeError", "random.normal")

\* holographic_decoherence drawing from a generator that earlier calls have
\* advanced (a module-level key, split at every call)
holographic_decoherence_global_rng(phase_field, decoherence_rate) ==
    LET key == IF pinned.state = "unset" THEN 0 ELSE 1
        noise == Mul(RandomNormal([key |-> key, shape |-> phase_field.shape]),
                     decoherence_rate)
    IN  Add(phase_field, noise)

holographic_decoherence(phase_field, decoherence_rate) ==
    LET noise == Mul(RandomNormal([size |-> phase_field.shape]), decoherence_rate)
    IN  Add(phase_field, noise)

\* @jit: every argument of a jitted function must be an array or a scalar
Jit(args, result) ==
    IF \E i \in 1..Len(args) : ~Numeric(args[i]) THEN LibError("TypeError", "jit")
    ELSE result

(***************************************************************************)
(* Inputs.                                                                 *)
(***************************************************************************)
Reals == {Rat(v, 1) : v \in -1..MaxVal}

NonNeg == {Rat(v, 1) : v \in 0..MaxVal}

\* real or imaginary complex elements
CElems == {<<r, Zero>> : r \in NonNeg} \cup {<<Zero, <<1, 1>>>>}

RealFields1D ==
    UNION {{Array(<<n>>, d) : d \in [1..n -> Reals]} : n \in 1..MaxLen}

RealFields2D == {Array(<<2, 2>>, d) : d \in [1..4 -> NonNeg]}

ComplexFields ==
    UNION {{CArray(<<n>>, d) : d \in [1..n -> CElems]} : n \in FftLens \cap 1..MaxLen}

RealFields == RealFields1D \cup RealFields2D

HistFields ==
    UNION {{Array(<<n>>, d) : d \in [1..n -> {Zero, <<1, 1>>}]} : n \in 1..HistLen}

\* scalar arguments (hbar, mass, decoherence_rate): zero, the default, another
Scalars == {Scalar(Rat(v, 1)) : v \in {0, 1, 2}}

\* hbar handed in as an array of ones: broadcast against the density field
HbarArrays == {Array(<<n>>, [i \in 1..n |-> <<1, 1>>]) : n \in 1..3}

\* the <<hbar, mass>> pairs compute_mqp is called with: scalars, and an hbar
\* array with the default mass
MqpArgs == (Scalars \X Scalars) \cup (HbarArrays \X {Scalar(<<1, 1>>)})

Coords == 0..1

ProjArgs == Coords \X Coords \X Coords

\* the stand-ins for holographic_projection: one complex value per argument
\* tuple, different for different orders of the arguments
Projections ==
    {[a \in ProjArgs |->
        CScalar(<<Rat(a[1] + 2 * a[2] + a[3], 1), Rat(k * (a[1] - a[2]) + a[3], 1)>>)]
     : k \in {1, 2}}

(***************************************************************************)
(* State.  field: the array the caller holds and passes in.  x64: JAX's    *)
(* jax_enable_x64 flag (double instead of single precision).  projection:  *)
(* the external routine.  last: the call in progress, with its outcome.    *)
(* projCalls: the calls the call in progress made to the routine.  pinned: *)
(* history variable, the first call of the behaviour and whether another   *)
(* call followed it.                                                       *)
(***************************************************************************)
NoCall == [fn |-> "none", args |-> <<>>, out |-> Scalar(Zero)]

Unpinned(state) == [state |-> state, call |-> NoCall, between |-> FALSE]

Init ==
    /\ (field \in RealFields \/ field \in ComplexFields)
    /\ x64 \in BOOLEAN
    /\ projection \in Projections
    /\ last = NoCall
    /\ projCalls = <<>>
    /\ pinned = Unpinned("off")

InitHistory ==
    /\ field \in HistFields
    /\ x64 \in BOOLEAN
    /\ projection \in Projections
    /\ last = NoCall
    /\ projCalls = <<>>
    /\ pinned = Unpinned("unset")

\* the history variable after a call
Pin(call) ==
    IF pinned.state = "unset"
    THEN [state |-> "set", call |-> call, between |-> FALSE]
    ELSE IF pinned.state = "set" /\ (call.fn # pinned.call.fn \/ call.args # pinned.call.args)
    THEN [pinned EXCEPT !.between = TRUE]
    ELSE pinned

\* a call returns (or raises) out, having called the projection routine as in calls
Returns(fn, args, out, calls) ==
    /\ last' = [fn |-> fn, args |-> args, out |-> out]
    /\ projCalls' = calls
    /\ pinned' = Pin([fn |-> fn, args |-> args, out |-> out])

CallQuantumFoam ==
    /\ last = NoCall
    /\ field.shape[Ndim(field)] \in FftLens
    /\ Returns("compute_quantum_foam", <<field>>,
               Jit(<<field>>, compute_quantum_foam(field)), <<>>)
    /\ UNCHANGED <<field, x64, projection>>

CallWaveParticleDuality ==
    /\ last = NoCall
    /\ \E x \in Coords, t \in Coords, params \in Coords :
          LET r == wave_particle_duality(x, t, params)
          IN  Returns("wave_particle_duality", <<x, t, params>>, r.ret, r.calls)
    /\ UNCHANGED <<field, x64, projection>>

CallBohmianVelocity ==
    /\ last = NoCall
    /\ \E phase_field \in {field, Callable}, mass \in Scalars \ {Scalar(Zero)} :
          LET args == <<phase_field, mass, Scalar(<<1, 1>>)>>
          IN  Returns("compute_bohmian_velocity", args,
                      Jit(args, compute_bohmian_velocity(args[1], args[2], args[3])), <<>>)
    /\ UNCHANGED <<field, x64, projection>>

\* compute_mqp writing its result into the array it was given
CallMqpInPlace ==
    /\ last = NoCall
    /\ field.dtype = "float"
    /\ \E a \in MqpArgs :
          LET out == Jit(<<field, a[1], a[2]>>, compute_mqp(field, a[1], a[2]))
          IN  /\ Returns("compute_mqp", <<field, a[1], a[2]>>, out, <<>>)
              /\ field' = IF IsArray(out) /\ out.shape = field.shape THEN out ELSE field
    /\ UNCHANGED <<x64, projection>>

CallMqp ==
    /\ last = NoCall
    /\ field.dtype = "float"
    /\ \E a \in MqpArgs :
          Returns("compute_mqp", <<field, a[1], a[2]>>,
                  Jit(<<field, a[1], a[2]>>, compute_mqp(field, a[1], a[2])), <<>>)
    /\ UNCHANGED <<field, x64, projection>>

CallEntanglementEntropy ==
    /\ last = NoCall
    /\ field.shape[Ndim(field)] \in FftLens
    /\ Returns("compute_entanglement_entropy", <<field>>,
               Jit(<<field>>, compute_entanglement_entropy(field)), <<>>)
    /\ UNCHANGED <<field, x64, projection>>

CallDecoherence ==
    /\ last = NoCall
    /\ \E decoherence_rate \in Scalars :
          Returns("holographic_decoherence", <<field, decoherence_rate>>,
                  Jit(<<field, decoherence_rate>>,
                      holographic_decoherence(field, decoherence_rate)), <<>>)
    /\ UNCHANGED <<field, x64, projection>>

\* the caller takes the outcome; the next call can start
Return ==
    /\ last # NoCall
    /\ last' = NoCall
    /\ projCalls' = <<>>
    /\ UNCHANGED <<field, x64, projection, pinned>>

Next ==
    \/ CallQuantumFoam
    \/ CallWaveParticleDuality
    \/ CallBohmianVelocity
    \/ CallMqp
    \/ CallEntanglementEntropy
    \/ CallDecoherence
    \/ Return

Spec == Init /\ [][Next]_vars

SpecHistory == InitHistory /\ [][Next]_vars

(***************************************************************************)
(* What the claims speak about.                                            *)
(***************************************************************************)
Called(fn) == last.fn = fn

\* the power spectrum |fft(a)|^2 of a field, as a sequence, and its sum
PowerSpectrum(a) == AbsSquared(Fft(a)).data

TotalPower(a) == RSum(PowerSpectrum(a))

\* tolerance of the fixed-point comparisons: 1e-4
Tol == Scale \div 10 ^ 4

\* the Shannon entropy of the normalised power spectrum s / T, from its
\* definition with 0 * log(0) = 0:  ln(T) - (1/T) * sum of s * ln(s)
RECURSIVE SumSLnS(_)
SumSLnS(s) ==
    IF s = <<>> THEN 0
    ELSE (IF Head(s) = Zero THEN 0 ELSE Head(s)[1] * FixLnInt(Head(s)[1]))
         + SumSLnS(Tail(s))

ShannonFix(a) ==
    FixLnInt(TotalPower(a)[1]) - SumSLnS(PowerSpectrum(a)) \div TotalPower(a)[1]

Within(a, b, tol) == a - b <= tol /\ b - a <= tol

\* a <= b for finite rationals
RLe(a, b) == a[1] * b[2] <= b[1] * a[2]

\* the power of the field sits in a single frequency
Concentrated(a) ==
    /\ TotalPower(a) # Zero
    /\ Cardinality({i \in 1..Len(PowerSpectrum(a)) : PowerSpectrum(a)[i] # Zero}) = 1

\* C1: holographic_decoherence called with decoherence_rate = 0 returns an
\* array equal to phase_field, shape and values, and does not raise.
C1_ZeroRateReturnsInput ==
    (Called("holographic_decoherence") /\ last.args[2] = Scalar(Zero))
        => /\ IsArray(last.out)
           /\ last.out.shape = last.args[1].shape
           /\ last.out.data = last.args[1].data

\* C2: when the power spectrum has a non-zero sum, compute_entanglement_entropy
\* is the Shannon entropy of the normalised power spectrum, within tolerance:
\* within Tol in fixed point, and within one 1e-10 per element beyond that.
C2_EntropyIsShannon ==
    (Called("compute_entanglement_entropy") /\ TotalPower(last.args[1]) # Zero)
        => /\ last.out.tag = "scalar"
           /\ last.out.v.cls = "fin"
           /\ Within(last.out.v.m, ShannonFix(last.args[1]), Tol)
           /\ RLe(RNeg(Rat(Size(last.args[1].shape), 1)), last.out.v.e)
           /\ RLe(last.out.v.e, Zero)

\* C2 witness: an entropy was computed for a spectrum with a zero component
C2_Witness ==
    /\ Called("compute_entanglement_entropy")
    /\ TotalPower(last.args[1]) # Zero
    /\ \E i \in 1..Len(PowerSpectrum(last.args[1])) : PowerSpectrum(last.args[1])[i] = Zero
    /\ ~Concentrated(last.args[1])
    /\ last.out.v.cls = "fin"

\* C3: compute_quantum_foam returns an array of the shape of phase_field, real
\* and >= 0, whose elements are the squared moduli of the array y that the
\* forward transform maps back onto phase_field (the inverse transform); along
\* every line it sums to 1/n of the squared moduli of phase_field (Parseval).
C3_FoamIsSquaredInverseTransform ==
    Called("compute_quantum_foam")
        => LET x == ToComplex(last.args[1])
               y == Ifft(last.args[1])
               n == x.shape[Ndim(x)]
           IN  /\ IsArray(last.out)
               /\ last.out.dtype = "float"
               /\ last.out.shape = x.shape
               /\ Fft(y) = x
               /\ \A i \in 1..Size(x.shape) :
                     /\ IsFinite(last.out.data[i])
                     /\ last.out.data[i][1] >= 0
                     /\ last.out.data[i] = Modulus2(y.data[i])
                     /\ RSum(LineOf(last.out, i))
                            = RMul(<<1, n>>, RSum([j \in 1..n |-> Modulus2(LineOf(x, i)[j])]))

\* C3 witness: the foam of a four-element field with an imaginary element
C3_Witness ==
    /\ Called("compute_quantum_foam")
    /\ last.args[1].dtype = "complex"
    /\ last.args[1].shape = <<4>>
    /\ \E i \in 1..4 : last.args[1].data[i][2] # Zero
    /\ \E i, j \in 1..4 : last.out.data[i] # last.out.data[j]

C5_NoMutation ==
    [][field' = field /\ x64' = x64 /\ projection' = projection]_vars

\* C5 witness: a call returned a new array, different from the one passed in
C5_Witness ==
    /\ Called("compute_mqp")
    /\ last.args[1] = field
    /\ IsArray(last.out)
    /\ last.out.shape = field.shape
    /\ last.out.data # field.data

\* the numerical gradient is defined: one dimension, at least two elements
GradientDefined(a) == Ndim(a) = 1 /\ a.shape[1] >= 2

\* -(hbar^2 / (2 * mass)) at position i
Coef(hbar, mass, i) ==
    LET h == Pick(hbar, <<i>>)
    IN  RNeg(RDiv(RMul(h, h), RMul(<<2, 1>>, mass.v)))

\* the second difference of a one-dimensional array at position i
SecondDiff(a, i) == Gradient(Gradient(a)).data[i]

\* C6: compute_mqp hands on what the array library produces.  Where the
\* density is zero the result is the IEEE quotient, NaN or an infinity of the
\* sign of the operands, never a finite stand-in and never an exception; with
\* an hbar array that does not broadcast, or a density the gradient does not
\* take, the outcome is the library's exception.
C6_FailuresPropagate ==
    Called("compute_mqp")
        => LET density == last.args[1]
               hbar == last.args[2]
               mass == last.args[3]
           IN  /\ (GradientDefined(density) /\ Compatible(ShapeOf(hbar), density.shape))
                     => /\ IsArray(last.out)
                        /\ \A i \in 1..density.shape[1] :
                              density.data[i] = Zero
                                 => LET c == Coef(hbar, mass, i)
                                        l == SecondDiff(density, i)
                                    IN  /\ ~IsFinite(last.out.data[i])
                                        /\ IsNaN(last.out.data[i])
                                              <=> (l = Zero \/ c = Zero \/ IsNaN(c))
                                        /\ IsInf(last.out.data[i])
                                              => last.out.data[i][1] = Sgn(c[1]) * Sgn(l[1])
               /\ (GradientDefined(density) /\ ~Compatible(ShapeOf(hbar), density.shape))
                     => last.out = LibError("ValueError", "multiply")
               /\ ~GradientDefined(density)
                     => (IsError(last.out) /\ last.out.by = "gradient")

\* C6 witness: a density with a zero element gave an infinite potential there
C6_Witness ==
    /\ Called("compute_mqp")
    /\ IsArray(last.out)
    /\ \E i \in 1..last.args[1].shape[1] :
          last.args[1].data[i] = Zero /\ IsInf(last.out.data[i])

\* C7: for an array phase_field and a non-zero mass, compute_bohmian_velocity
\* returns a value, the array (hbar / mass) * gradient of phase_field.
C7_VelocityIsScaledGradient ==
    (Called("compute_bohmian_velocity") /\ IsArray(last.args[1]))
        => /\ IsArray(last.out)
           /\ last.out.shape = last.args[1].shape
           /\ (last.args[1].dtype = "float" /\ GradientDefined(last.args[1]))
                 => last.out = Mul(Div(last.args[3], last.args[2]), Gradient(last.args[1]))

\* C8: for a density without a zero element (and two or more elements along
\* every axis) compute_mqp returns an array of the shape of the density, in one
\* dimension and in several; in one dimension its elements are
\* -(hbar^2 / (2 * mass)) * (second difference / density).
C8_MqpForEveryDimension ==
    (/\ Called("compute_mqp")
     /\ last.args[2].tag = "scalar"
     /\ \A k \in 1..Ndim(last.args[1]) : last.args[1].shape[k] >= 2
     /\ \A i \in 1..Size(last.args[1].shape) : last.args[1].data[i] # Zero)
        => /\ IsArray(last.out)
           /\ last.out.shape = last.args[1].shape
           /\ Ndim(last.args[1]) = 1
                 => \A i \in 1..last.args[1].shape[1] :
                       last.out.data[i]
                          = RMul(Coef(last.args[2], last.args[3], i),
                                 RDiv(SecondDiff(last.args[1], i), last.args[1].data[i]))

\* C9: wave_particle_duality calls holographic_projection once, with x, t and
\* params in that order, and returns the squared modulus of what it yields: a
\* real value >= 0.
C9_SquaredModulusOfProjection ==
    Called("wave_particle_duality")
        => /\ projCalls = <<last.args>>
           /\ last.out = Scalar(Modulus2(projection[last.args].v))
           /\ last.out.dtype = "float"
           /\ IsFinite(last.out.v)
           /\ last.out.v[1] >= 0

\* C9 witness: a projection value with an imaginary part, at x # t
C9_Witness ==
    /\ Called("wave_particle_duality")
    /\ last.args[1] # last.args[2]
    /\ projection[last.args].v[2] # Zero
    /\ last.out.v[1] > 0

\* a finite float is >= lo * 1e-10, for an integer lo <= 0
AtLeastEps(v, lo) == v.m > 0 \/ (v.m = 0 /\ RLe(Rat(lo, 1), v.e))

\* C10 as claimed: when the power spectrum has a non-zero sum the entropy is
\* finite and 0 <= entropy <= log(N), N the number of elements.
C10_EntropyInRange ==
    (Called("compute_entanglement_entropy") /\ TotalPower(last.args[1]) # Zero)
        => /\ last.out.v.cls = "fin"
           /\ AtLeastEps(last.out.v, 0)
           /\ last.out.v.m <= FixLnInt(Size(last.args[1].shape)) + Tol

\* C10 as amended: the entropy is finite and -1e-10 <= entropy <= log(N).  With
\* the power in a single frequency it is -log(1 + 1e-10): 0 in single
\* precision, where 1 + 1e-10 rounds to 1, and -1e-10 in double precision.
C10_EntropyRangeAmended ==
    (Called("compute_entanglement_entropy") /\ TotalPower(last.args[1]) # Zero)
        => /\ last.out.v.cls = "fin"
           /\ AtLeastEps(last.out.v, -1)
           /\ last.out.v.m <= FixLnInt(Size(last.args[1].shape)) + Tol
           /\ Concentrated(last.args[1])
                 => last.out.v = Fin(0, IF x64 THEN <<-1, 1>> ELSE Zero)
           /\ ~Concentrated(last.args[1]) => last.out.v.m > Tol

\* C10 witness: in double precision, the entropy of a field of several
\* elements whose power sits in one frequency is negative
C10_Witness ==
    /\ Called("compute_entanglement_entropy")
    /\ x64
    /\ Size(last.args[1].shape) > 1
    /\ Concentrated(last.args[1])
    /\ last.out.v.cls = "fin"
    /\ ~AtLeastEps(last.out.v, 0)

====
